---- MODULE Spec2Model ----
(***************************************************************************)
(* Model of the Packrat hash-state reconciliation and auto-snapshot        *)
(* scheduling code of src/cpp/session/modules/SessionPackrat.cpp.          *)
(*                                                                         *)
(* Every handler of the module (onFilesChanged, AutoSnapshot::onCompleted, *)
(* onPackratAction, annotatePendingActions) is one action.  The functions  *)
(* they call are operators over a context record `c` that carries the      *)
(* mutable program state through the call chain, so that one action is the *)
(* whole handler.  The library and the lockfile on disk are environment    *)
(* state, changed only by the Mutate actions.                              *)
(***************************************************************************)
EXTENDS Integers, Sequences, FiniteSets, TLC

VARIABLES
    library,                 \* concatenated content of the DESCRIPTION files
    lockfile,                \* state of packrat/packrat.lock on disk
    store,                   \* project-persistent "packrat" key/value store
    s_runningPackratAction,  \* static PackratActionType
    pendingSnapshots,        \* static int of pendingSnapshot()
    recursionCount,          \* static counter of checkHashes' recursion guard
    pAutoSnapshot,           \* static shared_ptr<AutoSnapshot>
    orphans,                 \* live subprocesses pAutoSnapshot no longer names
    queued,                  \* history: requests queued during the current run
    sequence,                \* history: start(A), start(B), stop so far
    env,                     \* phase of the environment
    tracing,                 \* what is observed: "off", "steps", "runs",
                             \* "events", "sequence" or "nested"
    last                     \* what the last handler did (observation)

vars == <<library, lockfile, store, s_runningPackratAction, pendingSnapshots,
          recursionCount, pAutoSnapshot, orphans, queued, sequence, env,
          tracing, last>>

----------------------------------------------------------------------------
(* Bounds                                                                  *)

MaxPending == 2      \* cap on the pendingSnapshots counter
MaxBatch == 2        \* longest batch of file-change events in one delivery
MaxEcho == 1         \* most changes reported while one hash check executes

----------------------------------------------------------------------------
(* Enumerations and string constants of the source                         *)

PACKRAT_ACTION_NONE == 0
PACKRAT_ACTION_SNAPSHOT == 1
PACKRAT_ACTION_RESTORE == 2
PACKRAT_ACTION_CLEAN == 3
PACKRAT_ACTION_UNKNOWN == 4

HASH_TYPE_LOCKFILE == 0
HASH_TYPE_LIBRARY == 1

HASH_STATE_RESOLVED == 0
HASH_STATE_OBSERVED == 1
HASH_STATE_COMPUTED == 2

SET_PENDING_SNAPSHOT == 0
COMPLETE_SNAPSHOT == 1

kPackratLockfile == "packrat.lock"
kPackratActionRestore == "restore"
kPackratActionClean == "clean"
kPackratActionSnapshot == "snapshot"

HashTypes == {HASH_TYPE_LOCKFILE, HASH_TYPE_LIBRARY}
StoredStates == {HASH_STATE_RESOLVED, HASH_STATE_OBSERVED}

----------------------------------------------------------------------------
(* The environment: files on disk, the external tool                       *)

\* contents the DESCRIPTION files of the library can concatenate to
LibraryContents == {"", "a", "b"}

\* states of the lockfile: absent, present but unreadable, or readable
LockfileStates ==
    { [exists |-> FALSE, readable |-> FALSE, content |-> ""],
      [exists |-> TRUE,  readable |-> FALSE, content |-> "a"],
      [exists |-> TRUE,  readable |-> TRUE,  content |-> "a"],
      [exists |-> TRUE,  readable |-> TRUE,  content |-> "b"] }

\* outcomes of one .rs.pendingActions call
QueryResults == {"error", "none", "some"}

\* exit statuses of the snapshot subprocess
ExitStatuses == {0, 1}

packratAction(str) ==
    IF str = kPackratActionSnapshot THEN PACKRAT_ACTION_SNAPSHOT
    ELSE IF str = kPackratActionRestore THEN PACKRAT_ACTION_RESTORE
    ELSE IF str = kPackratActionClean THEN PACKRAT_ACTION_CLEAN
    ELSE PACKRAT_ACTION_UNKNOWN

packratActionName(action) ==
    CASE action = PACKRAT_ACTION_SNAPSHOT -> kPackratActionSnapshot
      [] action = PACKRAT_ACTION_RESTORE -> kPackratActionRestore
      [] action = PACKRAT_ACTION_CLEAN -> kPackratActionClean
      [] OTHER -> ""

----------------------------------------------------------------------------
(* Library and lockfile hashing and comparison                             *)

keyOfHashType(hashType, hashState) ==
    "packrat"
      \o (IF hashType = HASH_TYPE_LOCKFILE THEN "Lockfile" ELSE "Library")
      \o (IF hashState = HASH_STATE_OBSERVED THEN "Observed" ELSE "Resolved")

Keys == { keyOfHashType(t, s) : t \in HashTypes, s \in StoredStates }

\* hash::crc32HexHash: the CRC-32 of the content as 8 hex digits
crc32HexHash(content) ==
    CASE content = ""  -> "00000000"
      [] content = "a" -> "e8b7be43"
      [] content = "b" -> "71beeff9"

computeLibraryHash ==
    IF library = "" THEN "" ELSE crc32HexHash(library)

computeLockfileHash ==
    IF ~lockfile.exists THEN ""
    ELSE IF ~lockfile.readable THEN ""
    ELSE crc32HexHash(lockfile.content)

getHash(c, hashType, hashState) ==
    IF hashState = HASH_STATE_COMPUTED
    THEN IF hashType = HASH_TYPE_LOCKFILE
         THEN computeLockfileHash
         ELSE computeLibraryHash
    ELSE c.store[keyOfHashType(hashType, hashState)]

updateHash(c, hashType, hashState) ==
    LET newHash == getHash(c, hashType, HASH_STATE_COMPUTED)
        oldHash == getHash(c, hashType, hashState)
    IN  IF newHash # oldHash
        THEN [c EXCEPT !.store[keyOfHashType(hashType, hashState)] = newHash]
        ELSE c

\* isHashUnresolved without the test for empty hashes
isHashUnresolved_NoEmptyTest(c, hashType) ==
    getHash(c, hashType, HASH_STATE_OBSERVED)
        # getHash(c, hashType, HASH_STATE_RESOLVED)

isHashUnresolved(c, hashType) ==
    LET observedHash == getHash(c, hashType, HASH_STATE_OBSERVED)
        resolvedHash == getHash(c, hashType, HASH_STATE_RESOLVED)
    IN  IF observedHash = "" \/ resolvedHash = ""
        THEN FALSE
        ELSE observedHash # resolvedHash

----------------------------------------------------------------------------
(* The context threaded through one handler                                *)

\* no lifecycle event: the handler is not onPackratAction
NoEvent ==
    [ project |-> "", action |-> "", running |-> FALSE,
      recorded |-> PACKRAT_ACTION_NONE ]

\* a default-constructed json::Value
JsonNull == "null"

\* the three json::Value locals of annotatePendingActions, before any call
NoActions ==
    [ restore_actions |-> JsonNull, snapshot_actions |-> JsonNull,
      clean_actions |-> JsonNull ]

\* the program state at the start of a handler, with the handler's inputs
\* (the outcome of each .rs.pendingActions call) and empty observations
Ctx(oracle) ==
    [ store |-> store,
      s_runningPackratAction |-> s_runningPackratAction,
      pendingSnapshots |-> pendingSnapshots,
      pAutoSnapshot |-> pAutoSnapshot,
      orphans |-> orphans,
      queued |-> queued,
      sequence |-> sequence,
      recursionCount |-> recursionCount,
      oracle |-> oracle,
      echo |-> <<>>,          \* changes the file monitor reports while a
                              \* hash check is executing
      dropped |-> 0,          \* checkHashes calls the recursion guard dropped
      changes |-> <<>>,       \* the batch onFilesChanged was given
      emitted |-> 0,          \* emitPackagesChanged calls
      started |-> 0,          \* subprocesses started
      checks |-> <<>>,        \* hash types checkHashes compared
      requests |-> <<>>,      \* hashes passed to performAutoSnapshot
      resolves |-> <<>>,      \* resolveStateAfterAction calls
      resolvedWhile |-> <<>>, \* s_runningPackratAction at each of them
      completed |-> PACKRAT_ACTION_NONE,   \* completedAction of a stop event
      queries |-> <<>>,       \* getPendingActions calls and their outcomes
      json |-> NoActions,     \* what annotatePendingActions attaches
      event |-> NoEvent ]     \* the lifecycle event the handler was given,
                              \* with the action recorded when it arrived

ActionNames ==
    {kPackratActionSnapshot, kPackratActionRestore, kPackratActionClean}

Oracles == [ActionNames -> QueryResults]

emitPackagesChanged(c) == [c EXCEPT !.emitted = @ + 1]

\* getPendingActions reporting a failed call as actions pending
getPendingActions_FailClosed(c, action) ==
    LET result == c.oracle[packratActionName(action)]
    IN  IF result = "none" THEN FALSE ELSE TRUE

\* the value getPendingActions returns: false on an error and on an empty
\* list, true when actions are listed (pActions is written only then)
getPendingActions(c, action) ==
    LET result == c.oracle[packratActionName(action)]
    IN  IF result = "error" THEN FALSE
        ELSE IF result = "none" THEN FALSE
        ELSE TRUE

\* the call itself, as the external tool sees it
queried(c, action) ==
    [c EXCEPT !.queries =
                 Append(@, <<action, c.oracle[packratActionName(action)]>>)]

----------------------------------------------------------------------------
(* Auto-snapshot                                                           *)

\* AsyncRProcess::isRunning
isRunning(p) == p.state = "running"

\* AsyncRProcess: the process has exited, before onCompleted is called
markCompleted(p) == [p EXCEPT !.state = "exited"]

AutoSnapshotCreate(c, targetHash) ==
    [c EXCEPT !.pAutoSnapshot = [state |-> "running",
                                 targetHash |-> targetHash],
              !.orphans = IF isRunning(c.pAutoSnapshot) THEN @ + 1 ELSE @,
              !.queued = 0,
              !.started = @ + 1]

\* resolveStateAfterAction marking the state resolved whatever remains pending
resolveStateAfterAction_Always(c, action, hashType) ==
    LET c1 == IF getHash(c, hashType, HASH_STATE_OBSERVED)
                   # getHash(c, hashType, HASH_STATE_COMPUTED)
              THEN emitPackagesChanged(c)
              ELSE c
        c2 == queried([c1 EXCEPT !.resolves = Append(@, <<action, hashType>>),
                                 !.resolvedWhile =
                                     Append(@, c.s_runningPackratAction)],
                      action)
    IN  updateHash(updateHash(c2, HASH_TYPE_LIBRARY, HASH_STATE_RESOLVED),
                   HASH_TYPE_LOCKFILE, HASH_STATE_RESOLVED)

\* resolveStateAfterAction marking only the lockfile as resolved
resolveStateAfterAction_LockfileOnly(c, action, hashType) ==
    LET c1 == IF getHash(c, hashType, HASH_STATE_OBSERVED)
                   # getHash(c, hashType, HASH_STATE_COMPUTED)
              THEN emitPackagesChanged(c)
              ELSE c
        c2 == queried([c1 EXCEPT !.resolves = Append(@, <<action, hashType>>),
                                 !.resolvedWhile =
                                     Append(@, c.s_runningPackratAction)],
                      action)
    IN  IF ~getPendingActions(c2, action)
        THEN updateHash(c2, HASH_TYPE_LOCKFILE, HASH_STATE_RESOLVED)
        ELSE c2

\* resolveStateAfterAction without the refresh of the client's view
resolveStateAfterAction_Silent(c, action, hashType) ==
    LET c2 == queried([c EXCEPT !.resolves = Append(@, <<action, hashType>>),
                                !.resolvedWhile =
                                    Append(@, c.s_runningPackratAction)],
                      action)
    IN  IF ~getPendingActions(c2, action)
        THEN updateHash(updateHash(c2, HASH_TYPE_LIBRARY, HASH_STATE_RESOLVED),
                        HASH_TYPE_LOCKFILE, HASH_STATE_RESOLVED)
        ELSE c2

\* resolveStateAfterAction marking the resolved entity as observed too
resolveStateAfterAction_MarksObserved(c, action, hashType) ==
    LET c1 == IF getHash(c, hashType, HASH_STATE_OBSERVED)
                   # getHash(c, hashType, HASH_STATE_COMPUTED)
              THEN emitPackagesChanged(c)
              ELSE c
        c2 == queried([c1 EXCEPT !.resolves = Append(@, <<action, hashType>>),
                                 !.resolvedWhile =
                                     Append(@, c.s_runningPackratAction)],
                      action)
    IN  IF ~getPendingActions(c2, action)
        THEN updateHash(
                 updateHash(updateHash(c2, HASH_TYPE_LIBRARY,
                                       HASH_STATE_RESOLVED),
                            HASH_TYPE_LOCKFILE, HASH_STATE_RESOLVED),
                 hashType, HASH_STATE_OBSERVED)
        ELSE c2

resolveStateAfterAction(c, action, hashType) ==
    LET c1 == IF getHash(c, hashType, HASH_STATE_OBSERVED)
                   # getHash(c, hashType, HASH_STATE_COMPUTED)
              THEN emitPackagesChanged(c)
              ELSE c
        c2 == queried([c1 EXCEPT !.resolves = Append(@, <<action, hashType>>),
                                 !.resolvedWhile =
                                     Append(@, c.s_runningPackratAction)],
                      action)
    IN  IF ~getPendingActions(c2, action)
        THEN updateHash(updateHash(c2, HASH_TYPE_LIBRARY, HASH_STATE_RESOLVED),
                        HASH_TYPE_LOCKFILE, HASH_STATE_RESOLVED)
        ELSE c2

RECURSIVE pendingSnapshot(_, _)

\* performAutoSnapshot without the test for a running subprocess
performAutoSnapshot_NoGuard(c0, newHash) ==
    AutoSnapshotCreate([c0 EXCEPT !.requests = Append(@, newHash)], newHash)

\* performAutoSnapshot without the comparison of the target hashes
performAutoSnapshot_NoCompare(c0, newHash) ==
    LET c == [c0 EXCEPT !.requests = Append(@, newHash)]
    IN  IF c.pAutoSnapshot.state # "null" /\ isRunning(c.pAutoSnapshot)
        THEN pendingSnapshot(c, SET_PENDING_SNAPSHOT)
        ELSE AutoSnapshotCreate(c, newHash)

performAutoSnapshot(c0, newHash) ==
    LET c == [c0 EXCEPT !.requests = Append(@, newHash)]
    IN  IF c.pAutoSnapshot.state # "null" /\ isRunning(c.pAutoSnapshot)
        THEN IF c.pAutoSnapshot.targetHash = newHash
             THEN c
             ELSE pendingSnapshot(c, SET_PENDING_SNAPSHOT)
        ELSE AutoSnapshotCreate(c, newHash)

\* pendingSnapshot re-running toward the target of the run that exited
pendingSnapshot_StaleTarget(c, action) ==
    IF action = SET_PENDING_SNAPSHOT
    THEN [c EXCEPT !.pendingSnapshots = @ + 1, !.queued = @ + 1]
    ELSE IF c.pendingSnapshots > 0
    THEN performAutoSnapshot([c EXCEPT !.pendingSnapshots = 0],
                             c.pAutoSnapshot.targetHash)
    ELSE resolveStateAfterAction(c, PACKRAT_ACTION_SNAPSHOT,
                                 HASH_TYPE_LIBRARY)

\* pendingSnapshot keeping a flag instead of a count
pendingSnapshot_Flag(c, action) ==
    IF action = SET_PENDING_SNAPSHOT
    THEN [c EXCEPT !.pendingSnapshots = 1, !.queued = 1]
    ELSE IF c.pendingSnapshots > 0
    THEN performAutoSnapshot([c EXCEPT !.pendingSnapshots = 0],
                             computeLibraryHash)
    ELSE resolveStateAfterAction(c, PACKRAT_ACTION_SNAPSHOT,
                                 HASH_TYPE_LIBRARY)

pendingSnapshot(c, action) ==
    IF action = SET_PENDING_SNAPSHOT
    THEN [c EXCEPT !.pendingSnapshots = @ + 1, !.queued = @ + 1]
    ELSE IF action = COMPLETE_SNAPSHOT
    THEN IF c.pendingSnapshots > 0
         THEN performAutoSnapshot([c EXCEPT !.pendingSnapshots = 0],
                                  computeLibraryHash)
         ELSE resolveStateAfterAction(c, PACKRAT_ACTION_SNAPSHOT,
                                      HASH_TYPE_LIBRARY)
    ELSE c

\* onCompleted without the test of the exit status
onCompleted_IgnoreStatus(c, exitStatus) ==
    pendingSnapshot(c, COMPLETE_SNAPSHOT)

onCompleted(c, exitStatus) ==
    IF exitStatus # 0
    THEN c
    ELSE pendingSnapshot(c, COMPLETE_SNAPSHOT)

----------------------------------------------------------------------------
(* Library and lockfile monitoring                                         *)

\* onLockfileUpdate reacting to the lockfile as onLibraryUpdate does
onLockfileUpdate_Requests(c, oldHash, newHash) ==
    performAutoSnapshot(emitPackagesChanged(c), newHash)

onLockfileUpdate(c, oldHash, newHash) == emitPackagesChanged(c)

\* onLibraryUpdate without the test for a pending restore
onLibraryUpdate_AlwaysSnapshot(c, oldHash, newHash) ==
    performAutoSnapshot(c, newHash)

onLibraryUpdate(c, oldHash, newHash) ==
    IF ~isHashUnresolved(c, HASH_TYPE_LOCKFILE)
    THEN performAutoSnapshot(c, newHash)
    ELSE emitPackagesChanged(c)

\* the boost::function checkHashes is given, called by its name
onMismatchCall(onMismatch, c, oldHash, newHash) ==
    IF onMismatch = "onLockfileUpdate"
    THEN onLockfileUpdate(c, oldHash, newHash)
    ELSE onLibraryUpdate(c, oldHash, newHash)

\* the file monitor's report of changes that arrives while checkHashes is
\* executing: the callback runs again, on the same thread, inside the call
RECURSIVE onFilesChanged(_, _)
whileChecking(c) == onFilesChanged([c EXCEPT !.echo = <<>>], c.echo)

\* checkHashes storing the computed hash as the compared one on a mismatch
checkHashes_StoreObserved(c, hashType, hashState, onMismatch) ==
    IF c.recursionCount + 1 > 1
    THEN [c EXCEPT !.dropped = @ + 1]
    ELSE LET c0 == [c EXCEPT !.recursionCount = @ + 1,
                             !.checks = Append(@, hashType)]
             c1 == whileChecking(c0)
             oldHash == getHash(c1, hashType, hashState)
             newHash == getHash(c1, hashType, HASH_STATE_COMPUTED)
             c2 == IF oldHash = newHash
                   THEN c1
                   ELSE updateHash(onMismatchCall(onMismatch, c1, oldHash,
                                                  newHash),
                                   hashType, hashState)
         IN  [c2 EXCEPT !.recursionCount = @ - 1]

\* checkHashes without the recursion guard
checkHashes_NoGuard(c, hashType, hashState, onMismatch) ==
    LET c0 == [c EXCEPT !.checks = Append(@, hashType)]
        c1 == whileChecking(c0)
        oldHash == getHash(c1, hashType, hashState)
        newHash == getHash(c1, hashType, HASH_STATE_COMPUTED)
    IN  IF oldHash = newHash
        THEN c1
        ELSE onMismatchCall(onMismatch, c1, oldHash, newHash)

\* DROP_RECURSIVE_CALLS counts the call in on entry and out on every return,
\* and returns at once when the call is not the only one counted
checkHashes(c, hashType, hashState, onMismatch) ==
    IF c.recursionCount + 1 > 1
    THEN [c EXCEPT !.dropped = @ + 1]
    ELSE LET c0 == [c EXCEPT !.recursionCount = @ + 1,
                             !.checks = Append(@, hashType)]
             c1 == whileChecking(c0)
             oldHash == getHash(c1, hashType, hashState)
             newHash == getHash(c1, hashType, HASH_STATE_COMPUTED)
             c2 == IF oldHash = newHash
                   THEN c1
                   ELSE onMismatchCall(onMismatch, c1, oldHash, newHash)
         IN  [c2 EXCEPT !.recursionCount = @ - 1]

\* the paths the file monitor reports, by the properties onFileChanged
\* reads: the lockfile and a DESCRIPTION file of an installed package,
WatchedPaths ==
    { [filename |-> "packrat.lock", withinLibrary |-> FALSE,
       isDirectory |-> FALSE, parent |-> "packrat"],
      [filename |-> "DESCRIPTION", withinLibrary |-> TRUE,
       isDirectory |-> FALSE, parent |-> "pkg"] }

\* a DESCRIPTION file in the RStudio-managed directory, a project source
IgnoredPaths ==
    { [filename |-> "DESCRIPTION", withinLibrary |-> TRUE,
       isDirectory |-> FALSE, parent |-> "rstudio"],
      [filename |-> "main.R", withinLibrary |-> FALSE,
       isDirectory |-> FALSE, parent |-> "R"] }

FilePaths == WatchedPaths \cup IgnoredPaths

\* onFileChanged without the test for a running action
onFileChanged_NoSuppress(c, sourceFilePath) ==
    IF sourceFilePath.filename = kPackratLockfile
    THEN checkHashes(c, HASH_TYPE_LOCKFILE, HASH_STATE_OBSERVED,
                     "onLockfileUpdate")
    ELSE IF sourceFilePath.withinLibrary
            /\ (sourceFilePath.isDirectory
                \/ sourceFilePath.filename = "DESCRIPTION")
    THEN IF \/ sourceFilePath.filename = "manipulate"
            \/ sourceFilePath.filename = "rstudio"
            \/ sourceFilePath.parent = "manipulate"
            \/ sourceFilePath.parent = "rstudio"
         THEN c
         ELSE checkHashes(c, HASH_TYPE_LIBRARY, HASH_STATE_OBSERVED,
                          "onLibraryUpdate")
    ELSE c

onFileChanged(c, sourceFilePath) ==
    IF c.s_runningPackratAction # PACKRAT_ACTION_NONE
    THEN c
    ELSE IF sourceFilePath.filename = kPackratLockfile
    THEN checkHashes(c, HASH_TYPE_LOCKFILE, HASH_STATE_OBSERVED,
                     "onLockfileUpdate")
    ELSE IF sourceFilePath.withinLibrary
            /\ (sourceFilePath.isDirectory
                \/ sourceFilePath.filename = "DESCRIPTION")
    THEN IF \/ sourceFilePath.filename = "manipulate"
            \/ sourceFilePath.filename = "rstudio"
            \/ sourceFilePath.parent = "manipulate"
            \/ sourceFilePath.parent = "rstudio"
         THEN c
         ELSE checkHashes(c, HASH_TYPE_LIBRARY, HASH_STATE_OBSERVED,
                          "onLibraryUpdate")
    ELSE c

onFilesChanged(c, changes) ==
    IF changes = <<>>
    THEN c
    ELSE onFilesChanged(onFileChanged(c, Head(changes)), Tail(changes))

----------------------------------------------------------------------------
(* Action lifecycle and status annotation                                  *)

CurrentProject == "~/project"

\* the action names the hook can report: the three known ones and another
ReportedActions == ActionNames \cup {"bundle"}

\* the lifecycle events the hook delivers: any action of the current
\* project starting or stopping, and events of another project
ActionEvents ==
    [project : {CurrentProject}, action : ReportedActions, running : BOOLEAN]
      \cup [project : {"~/other"}, action : {kPackratActionSnapshot},
             running : BOOLEAN]

\* onPackratAction resolving the library after a clean as after a snapshot
onPackratAction_CleanResolves(c, project, action, running) ==
    IF project # CurrentProject
    THEN c
    ELSE IF running
    THEN [c EXCEPT !.s_runningPackratAction = packratAction(action)]
    ELSE LET completedAction == c.s_runningPackratAction
             c1 == [c EXCEPT !.s_runningPackratAction = PACKRAT_ACTION_NONE,
                             !.completed = completedAction]
         IN  CASE completedAction = PACKRAT_ACTION_RESTORE ->
                    resolveStateAfterAction(c1, PACKRAT_ACTION_RESTORE,
                                            HASH_TYPE_LOCKFILE)
               [] completedAction = PACKRAT_ACTION_SNAPSHOT ->
                    resolveStateAfterAction(c1, PACKRAT_ACTION_SNAPSHOT,
                                            HASH_TYPE_LIBRARY)
               [] completedAction = PACKRAT_ACTION_CLEAN ->
                    resolveStateAfterAction(c1, PACKRAT_ACTION_CLEAN,
                                            HASH_TYPE_LIBRARY)
               [] OTHER -> c1

\* onPackratAction rejecting a start while an action is recorded
onPackratAction_KeepFirst(c, project, action, running) ==
    IF project # CurrentProject
    THEN c
    ELSE IF running
    THEN IF c.s_runningPackratAction # PACKRAT_ACTION_NONE
         THEN c
         ELSE [c EXCEPT !.s_runningPackratAction = packratAction(action)]
    ELSE LET completedAction == c.s_runningPackratAction
             c1 == [c EXCEPT !.s_runningPackratAction = PACKRAT_ACTION_NONE,
                             !.completed = completedAction]
         IN  CASE completedAction = PACKRAT_ACTION_RESTORE ->
                    resolveStateAfterAction(c1, PACKRAT_ACTION_RESTORE,
                                            HASH_TYPE_LOCKFILE)
               [] completedAction = PACKRAT_ACTION_SNAPSHOT ->
                    resolveStateAfterAction(c1, PACKRAT_ACTION_SNAPSHOT,
                                            HASH_TYPE_LIBRARY)
               [] OTHER -> c1

\* onPackratAction resolving the action named in the stop event
onPackratAction_ResolvesNamed(c, project, action, running) ==
    IF project # CurrentProject
    THEN c
    ELSE IF running
    THEN [c EXCEPT !.s_runningPackratAction = packratAction(action)]
    ELSE LET completedAction == packratAction(action)
             c1 == [c EXCEPT !.s_runningPackratAction = PACKRAT_ACTION_NONE,
                             !.completed = c.s_runningPackratAction]
         IN  CASE completedAction = PACKRAT_ACTION_RESTORE ->
                    resolveStateAfterAction(c1, PACKRAT_ACTION_RESTORE,
                                            HASH_TYPE_LOCKFILE)
               [] completedAction = PACKRAT_ACTION_SNAPSHOT ->
                    resolveStateAfterAction(c1, PACKRAT_ACTION_SNAPSHOT,
                                            HASH_TYPE_LIBRARY)
               [] OTHER -> c1

onPackratAction(c, project, action, running) ==
    IF project # CurrentProject
    THEN c
    ELSE IF running
    THEN [c EXCEPT !.s_runningPackratAction = packratAction(action)]
    ELSE LET completedAction == c.s_runningPackratAction
             c1 == [c EXCEPT !.s_runningPackratAction = PACKRAT_ACTION_NONE,
                             !.completed = completedAction]
         IN  CASE completedAction = PACKRAT_ACTION_RESTORE ->
                    resolveStateAfterAction(c1, PACKRAT_ACTION_RESTORE,
                                            HASH_TYPE_LOCKFILE)
               [] completedAction = PACKRAT_ACTION_SNAPSHOT ->
                    resolveStateAfterAction(c1, PACKRAT_ACTION_SNAPSHOT,
                                            HASH_TYPE_LIBRARY)
               [] OTHER -> c1

\* getPendingActions(action, &value): the value is written only when the
\* call returns a non-empty list
fetched(c, action, field) ==
    LET c1 == queried(c, action)
    IN  IF getPendingActions(c1, action)
        THEN [c1 EXCEPT !.json[field] =
                            <<packratActionName(action), "actions">>]
        ELSE c1

\* annotatePendingActions marking only the library hash as observed
annotatePendingActions_LibraryOnly(c) ==
    LET c1 == updateHash(c, HASH_TYPE_LIBRARY, HASH_STATE_OBSERVED)
        c2 == c1
        libraryHash == getHash(c, HASH_TYPE_LIBRARY, HASH_STATE_COMPUTED)
        lockfileHash == getHash(c, HASH_TYPE_LOCKFILE, HASH_STATE_COMPUTED)
        libraryDirty ==
            libraryHash # getHash(c2, HASH_TYPE_LIBRARY, HASH_STATE_RESOLVED)
        lockfileDirty ==
            lockfileHash # getHash(c2, HASH_TYPE_LOCKFILE, HASH_STATE_RESOLVED)
        c3 == IF libraryDirty
              THEN fetched(c2, PACKRAT_ACTION_SNAPSHOT, "snapshot_actions")
              ELSE c2
        c4 == IF lockfileDirty
              THEN fetched(c3, PACKRAT_ACTION_RESTORE, "restore_actions")
              ELSE c3
    IN  fetched(c4, PACKRAT_ACTION_CLEAN, "clean_actions")

annotatePendingActions(c) ==
    LET c1 == updateHash(c, HASH_TYPE_LIBRARY, HASH_STATE_OBSERVED)
        c2 == updateHash(c1, HASH_TYPE_LOCKFILE, HASH_STATE_OBSERVED)
        libraryHash == getHash(c, HASH_TYPE_LIBRARY, HASH_STATE_COMPUTED)
        lockfileHash == getHash(c, HASH_TYPE_LOCKFILE, HASH_STATE_COMPUTED)
        libraryDirty ==
            libraryHash # getHash(c2, HASH_TYPE_LIBRARY, HASH_STATE_RESOLVED)
        lockfileDirty ==
            lockfileHash # getHash(c2, HASH_TYPE_LOCKFILE, HASH_STATE_RESOLVED)
        c3 == IF libraryDirty
              THEN fetched(c2, PACKRAT_ACTION_SNAPSHOT, "snapshot_actions")
              ELSE c2
        c4 == IF lockfileDirty
              THEN fetched(c3, PACKRAT_ACTION_RESTORE, "restore_actions")
              ELSE c3
    IN  fetched(c4, PACKRAT_ACTION_CLEAN, "clean_actions")

----------------------------------------------------------------------------
(* The state machine                                                       *)

NoSnapshot == [state |-> "null", targetHash |-> ""]

Observation(op, c) ==
    [ op |-> op, emitted |-> c.emitted, started |-> c.started,
      checks |-> c.checks, requests |-> c.requests,
      resolves |-> c.resolves, resolvedWhile |-> c.resolvedWhile,
      completed |-> c.completed, queries |-> c.queries, json |-> c.json,
      event |-> c.event,
      changes |-> IF tracing = "nested" THEN c.changes ELSE <<>>,
      echo |-> IF tracing = "nested" THEN c.echo ELSE <<>>,
      dropped |-> IF tracing = "nested" THEN c.dropped ELSE 0 ]

\* the control thread is in its event loop: no handler has just run
Idle ==
    [ op |-> "idle", emitted |-> 0, started |-> 0,
      checks |-> <<>>, requests |-> <<>>, resolves |-> <<>>,
      resolvedWhile |-> <<>>, completed |-> PACKRAT_ACTION_NONE,
      queries |-> <<>>, json |-> NoActions, event |-> NoEvent,
      changes |-> <<>>, echo |-> <<>>, dropped |-> 0 ]

\* the handler ran on the control thread from the current state to context c
Commit(op, result) ==
    \E c \in {result} :
        /\ c.pendingSnapshots <= MaxPending
        /\ store' = c.store
        /\ s_runningPackratAction' = c.s_runningPackratAction
        /\ pendingSnapshots' = c.pendingSnapshots
        /\ recursionCount' = c.recursionCount
        /\ pAutoSnapshot' = c.pAutoSnapshot
        /\ orphans' = c.orphans
        /\ queued' = IF tracing = "runs" THEN c.queued ELSE 0
        /\ sequence' = IF tracing = "sequence" THEN c.sequence ELSE <<>>
        /\ last' = IF tracing # "off" THEN Observation(op, c) ELSE Idle
        /\ UNCHANGED <<library, lockfile, env, tracing>>

Init ==
    /\ library \in LibraryContents
    /\ lockfile \in LockfileStates
    /\ store = [k \in Keys |-> ""]
    /\ s_runningPackratAction = PACKRAT_ACTION_NONE
    /\ pendingSnapshots = 0
    /\ pAutoSnapshot = NoSnapshot
    /\ orphans = 0
    /\ queued = 0
    /\ sequence = <<>>
    /\ recursionCount = 0
    /\ env = "free"
    /\ tracing = "steps"
    /\ last = Idle

\* the same session with the handlers unobserved
LiveInit ==
    /\ library \in LibraryContents
    /\ lockfile \in LockfileStates
    /\ store = [k \in Keys |-> ""]
    /\ s_runningPackratAction = PACKRAT_ACTION_NONE
    /\ pendingSnapshots = 0
    /\ pAutoSnapshot = NoSnapshot
    /\ orphans = 0
    /\ queued = 0
    /\ sequence = <<>>
    /\ recursionCount = 0
    /\ env = "free"
    /\ tracing = "off"
    /\ last = Idle

\* the same session with the handlers observed and, along with them, how
\* many requests each run has had queued
RunInit ==
    /\ library \in LibraryContents
    /\ lockfile \in LockfileStates
    /\ store = [k \in Keys |-> ""]
    /\ s_runningPackratAction = PACKRAT_ACTION_NONE
    /\ pendingSnapshots = 0
    /\ pAutoSnapshot = NoSnapshot
    /\ orphans = 0
    /\ queued = 0
    /\ sequence = <<>>
    /\ recursionCount = 0
    /\ env = "free"
    /\ tracing = "runs"
    /\ last = Idle

\* the same session with the handlers observed and, along with them, the
\* lifecycle event each onPackratAction call was given
EventInit ==
    /\ library \in LibraryContents
    /\ lockfile \in LockfileStates
    /\ store = [k \in Keys |-> ""]
    /\ s_runningPackratAction = PACKRAT_ACTION_NONE
    /\ pendingSnapshots = 0
    /\ pAutoSnapshot = NoSnapshot
    /\ orphans = 0
    /\ queued = 0
    /\ sequence = <<>>
    /\ recursionCount = 0
    /\ env = "free"
    /\ tracing = "events"
    /\ last = Idle

\* the same session with the lifecycle events observed, along with how far
\* they have gone through start(A), start(B), stop, stop
LifecycleInit ==
    /\ library \in LibraryContents
    /\ lockfile \in LockfileStates
    /\ store = [k \in Keys |-> ""]
    /\ s_runningPackratAction = PACKRAT_ACTION_NONE
    /\ pendingSnapshots = 0
    /\ pAutoSnapshot = NoSnapshot
    /\ orphans = 0
    /\ queued = 0
    /\ sequence = <<>>
    /\ recursionCount = 0
    /\ env = "free"
    /\ tracing = "sequence"
    /\ last = Idle

\* the same session with the nested file-change reports observed
NestedInit ==
    /\ library \in LibraryContents
    /\ lockfile \in LockfileStates
    /\ store = [k \in Keys |-> ""]
    /\ s_runningPackratAction = PACKRAT_ACTION_NONE
    /\ pendingSnapshots = 0
    /\ recursionCount = 0
    /\ pAutoSnapshot = NoSnapshot
    /\ orphans = 0
    /\ queued = 0
    /\ sequence = <<>>
    /\ env = "free"
    /\ tracing = "nested"
    /\ last = Idle

\* what the snapshot subprocess and its pending-actions query can answer:
\* anything, until the environment is healthy
Statuses == IF env = "healthy" THEN {0} ELSE ExitStatuses
SnapshotAnswers == IF env = "healthy" THEN {"error", "none"} ELSE QueryResults

Uniform(q) == [a \in ActionNames |-> q]

\* the file monitor reports one change, or several changes at once; a path
\* onFileChanged ignores adds nothing to a batch and is reported alone
Batches ==
    { <<p>> : p \in FilePaths }
      \cup UNION { [1..n -> WatchedPaths] : n \in 2..MaxBatch }

\* the library on disk changes (packages installed, removed, updated)
MutateLibrary ==
    /\ env = "free"
    /\ last = Idle
    /\ \E content \in LibraryContents \ {library} : library' = content
    /\ last' = last
    /\ UNCHANGED <<lockfile, store, s_runningPackratAction, pendingSnapshots,
                   recursionCount, pAutoSnapshot, orphans, queued, sequence,
                   env, tracing>>

\* the lockfile on disk changes
MutateLockfile ==
    /\ env = "free"
    /\ last = Idle
    /\ \E f \in LockfileStates \ {lockfile} : lockfile' = f
    /\ last' = last
    /\ UNCHANGED <<library, store, s_runningPackratAction, pendingSnapshots,
                   recursionCount, pAutoSnapshot, orphans, queued, sequence,
                   env, tracing>>

\* the environment goes quiet: from now on the files are not mutated and
\* the file monitor reports nothing; then it becomes healthy: from now on
\* every snapshot exits with status 0 and leaves no snapshot action pending
Settle ==
    /\ env # "healthy"
    /\ last = Idle
    /\ env' = IF env = "free" THEN "quiet" ELSE "healthy"
    /\ last' = last
    /\ UNCHANGED <<library, lockfile, store, s_runningPackratAction,
                   pendingSnapshots, recursionCount, pAutoSnapshot, orphans,
                   queued, sequence, tracing>>

\* what the file monitor reports while a hash check is executing: nothing,
\* or a change to one of the files the check hashes.  The report is dropped
\* without effect, so only the specification that observes it lets it come
Echoes ==
    IF tracing = "nested"
    THEN {<<>>} \cup UNION { [1..n -> WatchedPaths] : n \in 1..MaxEcho }
    ELSE {<<>>}

\* the file monitor delivers a batch of changes
FilesChanged ==
    /\ last = Idle
    /\ env = "free"
    /\ \E changes \in Batches, echo \in Echoes :
           LET c == onFilesChanged([Ctx(Uniform("none"))
                                       EXCEPT !.echo = echo], changes)
           IN  Commit("onFilesChanged",
                      [c EXCEPT !.changes = changes, !.echo = echo])

\* a snapshot subprocess exits
SnapshotExit ==
    /\ last = Idle
    /\ \E exitStatus \in Statuses, current \in BOOLEAN :
        \E q \in IF exitStatus = 0 /\ pendingSnapshots = 0
                  THEN SnapshotAnswers ELSE {"none"} :
          /\ IF current THEN isRunning(pAutoSnapshot) ELSE orphans > 0
          /\ LET c0 == Ctx(Uniform(q))
                 c1 == IF current
                       THEN [c0 EXCEPT !.pAutoSnapshot = markCompleted(@)]
                       ELSE [c0 EXCEPT !.orphans = @ - 1]
             IN  Commit(IF exitStatus = 0 THEN "exit0" ELSE "exitFail",
                        onCompleted(c1, exitStatus))

\* a lifecycle event as it is observed: with the action that is recorded
\* when it arrives
Delivered(e) ==
    [ project |-> e.project, action |-> e.action, running |-> e.running,
      recorded |-> s_runningPackratAction ]

\* the history of the lifecycle events of the current project, as far as
\* they make up start(A), start(B), stop: <<A, B>> once B has been started
\* over a recorded A, <<A, B, r>> after the stop that follows, r being the
\* resolveAfter calls that stop made, and <<>> otherwise
Followed(seq, e, resolves) ==
    IF e.project # CurrentProject
    THEN seq
    ELSE IF e.running
    THEN IF s_runningPackratAction # PACKRAT_ACTION_NONE
         THEN <<s_runningPackratAction, packratAction(e.action)>>
         ELSE <<>>
    ELSE IF Len(seq) = 2
    THEN Append(seq, resolves)
    ELSE <<>>

\* the packrat action hook reports the start or the end of an action
PackratAction ==
    /\ last = Idle
    /\ \E e \in ActionEvents :
        \E q \in IF e.running \/ e.project # CurrentProject
                    \/ s_runningPackratAction \notin
                         {PACKRAT_ACTION_SNAPSHOT, PACKRAT_ACTION_RESTORE}
                  THEN {"none"} ELSE QueryResults :
            LET c0 == [Ctx(Uniform(q)) EXCEPT
                          !.event = IF tracing \in {"events", "sequence"}
                                    THEN Delivered(e) ELSE @]
                c1 == onPackratAction(c0, e.project, e.action, e.running)
            IN  Commit(IF e.project # CurrentProject THEN "actionElsewhere"
                       ELSE IF e.running THEN "actionStart" ELSE "actionStop",
                       [c1 EXCEPT !.sequence = Followed(@, e, c1.resolves)])

\* the client asks for the package state
Annotate ==
    /\ last = Idle
    /\ \E q \in QueryResults :
           Commit("annotate", annotatePendingActions(Ctx(Uniform(q))))

\* the handler returns and the control thread goes back to its event loop
Return ==
    /\ last # Idle
    /\ last' = Idle
    /\ UNCHANGED <<library, lockfile, store, s_runningPackratAction,
                   pendingSnapshots, recursionCount, pAutoSnapshot, orphans,
                   queued, sequence, env, tracing>>

Next ==
    \/ MutateLibrary
    \/ MutateLockfile
    \/ FilesChanged
    \/ SnapshotExit
    \/ PackratAction
    \/ Annotate
    \/ Return

Spec == Init /\ [][Next]_vars

\* the scheduler, unobserved, in a session where the user runs no packrat
\* action and the environment can settle, and where every snapshot
\* subprocess eventually exits
LiveNext ==
    \/ MutateLibrary
    \/ MutateLockfile
    \/ Settle
    \/ FilesChanged
    \/ SnapshotExit
    \/ Annotate

LiveSpec == LiveInit /\ [][LiveNext]_vars /\ WF_vars(SnapshotExit)

\* the scheduler with its run history, in a session where the user runs no
\* packrat action
RunNext ==
    \/ MutateLibrary
    \/ MutateLockfile
    \/ FilesChanged
    \/ SnapshotExit
    \/ Annotate
    \/ Return

RunSpec == RunInit /\ [][RunNext]_vars

\* the monitor, the auto-snapshot and the lifecycle tracker, observed with
\* the lifecycle events, in a session where the client asks for nothing
EventNext ==
    \/ MutateLibrary
    \/ MutateLockfile
    \/ FilesChanged
    \/ SnapshotExit
    \/ PackratAction
    \/ Return

EventSpec == EventInit /\ [][EventNext]_vars

\* the monitor and the auto-snapshot, with the file monitor reporting
\* changes while a hash check executes
NestedNext ==
    \/ MutateLibrary
    \/ MutateLockfile
    \/ FilesChanged
    \/ SnapshotExit
    \/ Return

NestedSpec == NestedInit /\ [][NestedNext]_vars

\* the lifecycle tracker with the history of its events, in a session where
\* the file monitor reports nothing, so that no auto-snapshot runs
LifecycleNext ==
    \/ MutateLibrary
    \/ MutateLockfile
    \/ PackratAction
    \/ Annotate
    \/ Return

LifecycleSpec == LifecycleInit /\ [][LifecycleNext]_vars

----------------------------------------------------------------------------
(* Derived views                                                           *)

stored(hashType, hashState) == store[keyOfHashType(hashType, hashState)]

computed(hashType) ==
    IF hashType = HASH_TYPE_LOCKFILE
    THEN computeLockfileHash
    ELSE computeLibraryHash

\* the number of snapshot subprocesses started and not yet exited
ActiveSnapshots == orphans + (IF isRunning(pAutoSnapshot) THEN 1 ELSE 0)

TypeOK ==
    /\ library \in LibraryContents
    /\ lockfile \in LockfileStates
    /\ DOMAIN store = Keys
    /\ s_runningPackratAction \in 0..4
    /\ pendingSnapshots \in 0..MaxPending
    /\ pAutoSnapshot.state \in {"null", "running", "exited"}
    /\ orphans \in Nat
    /\ queued \in 0..pendingSnapshots
    /\ env \in {"free", "quiet", "healthy"}
    /\ tracing \in {"off", "steps", "runs", "events", "sequence", "nested"}
    /\ recursionCount = 0
    /\ Len(sequence) \in {0, 2, 3}

RESOLVED(hashType) == stored(hashType, HASH_STATE_RESOLVED)
OBSERVED(hashType) == stored(hashType, HASH_STATE_OBSERVED)

\* isHashUnresolved in the current state
isUnresolved(hashType) == isHashUnresolved([store |-> store], hashType)

\* the scheduler is RUNNING(target) or RUNNING_WITH_PENDING(target, n)
Running == isRunning(pAutoSnapshot)

\* the last handler asked the tool and was told that no actions remain
\* (an empty list, or an error, which the tool interface reports as empty)
NothingPending(obs) ==
    /\ obs.queries # <<>>
    /\ obs.queries[Len(obs.queries)][2] \in {"none", "error"}

----------------------------------------------------------------------------
(* Properties of the auto-snapshot scheduler                               *)

\* C1: at most one auto-snapshot subprocess is active in every reachable
\* state: no request starts one while an earlier one has not exited.
C1_OneSubprocess == ActiveSnapshots <= 1

\* a request arrived while a subprocess was running and started nothing
C1_Witness ==
    /\ last.op = "onFilesChanged"
    /\ last.requests # <<>>
    /\ last.started = 0
    /\ Running
    /\ ActiveSnapshots = 1

\* C2: a request(h) made while a subprocess runs toward h is absorbed: no
\* subprocess starts, the running target and the pending counter stay.
C2_SameTargetAbsorbed ==
    [][ ( /\ last'.op = "onFilesChanged"
          /\ Running
          /\ last'.requests # <<>>
          /\ \A i \in DOMAIN last'.requests :
                last'.requests[i] = pAutoSnapshot.targetHash )
        => ( /\ last'.started = 0
             /\ pAutoSnapshot' = pAutoSnapshot
             /\ pendingSnapshots' = pendingSnapshots
             /\ ActiveSnapshots' = ActiveSnapshots ) ]_vars

\* a request for the running target was made and absorbed
C2_Witness ==
    /\ last.op = "onFilesChanged"
    /\ last.requests = <<pAutoSnapshot.targetHash>>
    /\ last.started = 0
    /\ Running
    /\ pendingSnapshots = 0

\* C3: an exit with status 0 while the pending counter is positive resets
\* the counter and starts exactly one subprocess, whose target is the
\* library hash computed at the exit; it resolves nothing.
C3_PendingRestart ==
    [][ (last'.op = "exit0" /\ pendingSnapshots > 0)
        => ( /\ pendingSnapshots' = 0
             /\ last'.started = 1
             /\ ActiveSnapshots' = 1
             /\ isRunning(pAutoSnapshot')
             /\ pAutoSnapshot'.targetHash = computeLibraryHash
             /\ last'.requests = <<computeLibraryHash>>
             /\ last'.resolves = <<>>
             /\ last'.queries = <<>>
             /\ RESOLVED(HASH_TYPE_LIBRARY)' = RESOLVED(HASH_TYPE_LIBRARY)
             /\ RESOLVED(HASH_TYPE_LOCKFILE)' = RESOLVED(HASH_TYPE_LOCKFILE) )
      ]_vars

\* a run was restarted at a successful exit, toward the current library hash
C3_Witness ==
    /\ last.op = "exit0"
    /\ last.started = 1
    /\ last.requests = <<computeLibraryHash>>
    /\ Running
    /\ pendingSnapshots = 0
    /\ RESOLVED(HASH_TYPE_LIBRARY) # computeLibraryHash

\* C4 as stated: once the scheduler is RUNNING and the environment is quiet
\* (no further mutation, no further request), and every subprocess
\* eventually exits, the scheduler eventually is IDLE with
\* RESOLVED(LIBRARY) = COMPUTED(LIBRARY).
C4_Converges ==
    (Running /\ env = "quiet")
      ~> (~Running /\ RESOLVED(HASH_TYPE_LIBRARY) = computeLibraryHash)

\* C4, amended: the same, once moreover every subprocess exits with status 0
\* and its query for pending snapshot actions reports none.
C4_ConvergesWhenHealthy ==
    (Running /\ env = "healthy")
      ~> (~Running /\ RESOLVED(HASH_TYPE_LIBRARY) = computeLibraryHash)

\* a healthy environment in which the run has exited and the library state
\* is resolved
C4_Witness ==
    /\ env = "healthy"
    /\ pAutoSnapshot.state = "exited"
    /\ pendingSnapshots = 0
    /\ computeLibraryHash # ""
    /\ RESOLVED(HASH_TYPE_LIBRARY) = computeLibraryHash
    /\ RESOLVED(HASH_TYPE_LIBRARY) # pAutoSnapshot.targetHash

----------------------------------------------------------------------------
(* Properties of the persisted RESOLVED hashes                             *)

ResolvedChanges ==
    \/ RESOLVED(HASH_TYPE_LOCKFILE)' # RESOLVED(HASH_TYPE_LOCKFILE)
    \/ RESOLVED(HASH_TYPE_LIBRARY)' # RESOLVED(HASH_TYPE_LIBRARY)

BothResolved ==
    /\ RESOLVED(HASH_TYPE_LOCKFILE) = computeLockfileHash
    /\ RESOLVED(HASH_TYPE_LIBRARY) = computeLibraryHash

\* C5: a step that resolves a snapshot or a restore with no action of that
\* type pending leaves RESOLVED = COMPUTED for the lockfile and for the
\* library, and no step changes a RESOLVED value without leaving both so.
C5_JointResolution ==
    [][ /\ (last'.resolves # <<>> /\ NothingPending(last')) => BothResolved'
        /\ ResolvedChanges => BothResolved' ]_vars

\* a restore was resolved, and both RESOLVED hashes are the computed ones
C5_Witness ==
    /\ last.resolves = <<<<PACKRAT_ACTION_RESTORE, HASH_TYPE_LOCKFILE>>>>
    /\ NothingPending(last)
    /\ computeLockfileHash # ""
    /\ computeLibraryHash # ""
    /\ BothResolved

\* C6: a RESOLVED value changes only in a step that runs resolveAfter (the
\* stop of an action, a successful snapshot exit) and whose query reports
\* nothing pending; file changes, requests and annotate never change it.
C6_ResolvedOnlyWhenNothingPending ==
    [][ ResolvedChanges
        => ( /\ last'.op \in {"actionStop", "exit0"}
             /\ last'.resolves # <<>>
             /\ NothingPending(last') ) ]_vars

\* a snapshot was resolved while snapshot actions remained: RESOLVED is stale
C6_Witness ==
    /\ last.op = "actionStop"
    /\ last.resolves = <<<<PACKRAT_ACTION_SNAPSHOT, HASH_TYPE_LIBRARY>>>>
    /\ last.queries = <<<<PACKRAT_ACTION_SNAPSHOT, "some">>>>
    /\ RESOLVED(HASH_TYPE_LIBRARY) # computeLibraryHash
    /\ RESOLVED(HASH_TYPE_LIBRARY) # ""

\* C7: no failure of an external-tool call (a snapshot exit with a non-zero
\* status, a pendingActions query that returns an error) changes a RESOLVED
\* value.
C7_FailuresKeepResolved ==
    [][ ( \/ last'.op = "exitFail"
          \/ \E i \in DOMAIN last'.queries : last'.queries[i][2] = "error" )
        => ~ResolvedChanges ]_vars

----------------------------------------------------------------------------
(* Properties of the file-change checks                                    *)

\* C8: while a RunningAction is recorded, a batch of file changes has no
\* effect: no check, no UI refresh, no request, no subprocess, no change of
\* the counter or of a persisted hash.
C8_SuppressedWhileActionRuns ==
    [][ (last'.op = "onFilesChanged"
           /\ s_runningPackratAction # PACKRAT_ACTION_NONE)
        => ( /\ last'.checks = <<>>
             /\ last'.emitted = 0
             /\ last'.started = 0
             /\ last'.requests = <<>>
             /\ UNCHANGED <<store, pendingSnapshots, pAutoSnapshot, orphans,
                            s_runningPackratAction>> ) ]_vars

\* a library change was reported and ignored while an action of an
\* unrecognised name was recorded, although the library hash has drifted
C8_Witness ==
    /\ last.op = "onFilesChanged"
    /\ s_runningPackratAction = PACKRAT_ACTION_UNKNOWN
    /\ OBSERVED(HASH_TYPE_LIBRARY) # computeLibraryHash
    /\ ~isUnresolved(HASH_TYPE_LOCKFILE)
    /\ ~Running
    /\ last.emitted = 0

\* C9: one check of the library that finds OBSERVED # COMPUTED while the
\* lockfile is unresolved emits exactly one UI refresh and requests nothing.
C9_NoSnapshotWhileRestorePending ==
    [][ ( /\ last'.op = "onFilesChanged"
          /\ last'.checks = <<HASH_TYPE_LIBRARY>>
          /\ OBSERVED(HASH_TYPE_LIBRARY) # computeLibraryHash
          /\ isUnresolved(HASH_TYPE_LOCKFILE) )
        => ( /\ last'.emitted = 1
             /\ last'.started = 0
             /\ last'.requests = <<>>
             /\ UNCHANGED <<pendingSnapshots, pAutoSnapshot, orphans>> )
      ]_vars

\* the library drifted while a restore was outstanding: one refresh, no run
C9_Witness ==
    /\ last.op = "onFilesChanged"
    /\ last.checks = <<HASH_TYPE_LIBRARY>>
    /\ last.emitted = 1
    /\ last.requests = <<>>
    /\ isUnresolved(HASH_TYPE_LOCKFILE)
    /\ OBSERVED(HASH_TYPE_LIBRARY) # computeLibraryHash
    /\ ~Running

\* two checks of the same entity, one right after the other
TwoChecks(obs) ==
    /\ obs.op = "onFilesChanged"
    /\ obs.checks \in { <<HASH_TYPE_LOCKFILE, HASH_TYPE_LOCKFILE>>,
                        <<HASH_TYPE_LIBRARY, HASH_TYPE_LIBRARY>> }

\* C10 as stated: two consecutive checks of an entity with no mutation
\* between them emit at most one UI refresh, and make at most one subprocess
\* start or counter increment.
C10_Idempotent ==
    [][ TwoChecks(last')
        => ( /\ last'.emitted <= 1
             /\ last'.started + (pendingSnapshots' - pendingSnapshots) <= 1 )
      ]_vars

\* C10, amended: two consecutive checks of an entity with no mutation
\* between them start at most one subprocess, whose run absorbs the second
\* request; a UI refresh or a counter increment of the first check is
\* repeated by the second.
C10_OneStartRepeatedReaction ==
    [][ TwoChecks(last')
        => LET increments == pendingSnapshots' - pendingSnapshots
           IN  /\ last'.started <= 1
               /\ ActiveSnapshots' <= 1
               /\ last'.emitted \in {0, 2}
               /\ increments \in {0, 2}
               /\ last'.started = 1 => (increments = 0 /\ last'.emitted = 0)
      ]_vars

\* the first of two library checks started a run and the second was absorbed
C10_Witness ==
    /\ last.op = "onFilesChanged"
    /\ last.checks = <<HASH_TYPE_LIBRARY, HASH_TYPE_LIBRARY>>
    /\ last.requests = <<computeLibraryHash, computeLibraryHash>>
    /\ last.started = 1
    /\ pendingSnapshots = 0

----------------------------------------------------------------------------
(* Properties of the OBSERVED hashes and of the UI refresh                 *)

\* one check of the lockfile, made by a file-change event, that finds
\* OBSERVED(LOCKFILE) # COMPUTED(LOCKFILE)
LockfileDrift(obs) ==
    /\ obs.op = "onFilesChanged"
    /\ OBSERVED(HASH_TYPE_LOCKFILE) # computeLockfileHash

\* C11 as stated: a check of the lockfile that finds OBSERVED # COMPUTED
\* stores the computed hash as OBSERVED(LOCKFILE) and fires one UI refresh,
\* so that a second check with unchanged content does nothing.
C11_StoresObserved ==
    [][ /\ (LockfileDrift(last') /\ last'.checks = <<HASH_TYPE_LOCKFILE>>)
            => ( /\ OBSERVED(HASH_TYPE_LOCKFILE)' = computeLockfileHash
                 /\ last'.emitted = 1 )
        /\ (LockfileDrift(last')
              /\ last'.checks = <<HASH_TYPE_LOCKFILE, HASH_TYPE_LOCKFILE>>)
            => last'.emitted = 1 ]_vars

\* C11, amended: a check of the lockfile that finds OBSERVED # COMPUTED
\* fires one UI refresh and stores nothing: OBSERVED(LOCKFILE) still differs
\* from COMPUTED(LOCKFILE) after it, and a second check with unchanged
\* content fires the refresh again.
C11_RefreshWithoutStore ==
    [][ /\ (LockfileDrift(last') /\ last'.checks = <<HASH_TYPE_LOCKFILE>>)
            => ( /\ last'.emitted = 1
                 /\ last'.requests = <<>>
                 /\ store' = store
                 /\ OBSERVED(HASH_TYPE_LOCKFILE)' # computeLockfileHash' )
        /\ (LockfileDrift(last')
              /\ last'.checks = <<HASH_TYPE_LOCKFILE, HASH_TYPE_LOCKFILE>>)
            => (last'.emitted = 2 /\ store' = store) ]_vars

\* a lockfile with content and no prior state was checked once: one
\* refresh, and OBSERVED(LOCKFILE) is still empty
C11_Witness ==
    /\ last.op = "onFilesChanged"
    /\ last.checks = <<HASH_TYPE_LOCKFILE>>
    /\ last.emitted = 1
    /\ computeLockfileHash # ""
    /\ OBSERVED(HASH_TYPE_LOCKFILE) = ""
    /\ RESOLVED(HASH_TYPE_LOCKFILE) = ""

ObservedChanges ==
    \/ OBSERVED(HASH_TYPE_LOCKFILE)' # OBSERVED(HASH_TYPE_LOCKFILE)
    \/ OBSERVED(HASH_TYPE_LIBRARY)' # OBSERVED(HASH_TYPE_LIBRARY)

\* the entity of the resolveAfter call of a step differs between its
\* OBSERVED and its freshly computed hash
ResolvedWithDrift(obs) ==
    /\ obs.resolves # <<>>
    /\ OBSERVED(obs.resolves[1][2]) # computed(obs.resolves[1][2])

\* C12 as stated: the UI signal is emitted in every step that changes a
\* persisted OBSERVED value, and in every resolveAfter step where
\* OBSERVED(entity) differs from the freshly computed hash of the entity.
C12_EmittedOnObservedChange ==
    [][ /\ ObservedChanges => last'.emitted >= 1
        /\ ResolvedWithDrift(last') => last'.emitted >= 1 ]_vars

\* C12, amended: a resolveAfter step emits the UI signal once if
\* OBSERVED(entity) differs from the freshly computed hash and not at all
\* otherwise; the steps that change a persisted OBSERVED value are annotate
\* steps, and annotate emits no signal.
C12_EmittedOnResolvedDrift ==
    [][ /\ last'.resolves # <<>>
            => ( /\ Len(last'.resolves) = 1
                 /\ last'.emitted
                      = IF ResolvedWithDrift(last') THEN 1 ELSE 0 )
        /\ ObservedChanges => last'.op = "annotate"
        /\ last'.op = "annotate" => last'.emitted = 0 ]_vars

\* an auto-snapshot exit resolved the library while the client's view of it
\* was out of date, and emitted the signal
C12_Witness ==
    /\ last.op = "exit0"
    /\ last.resolves = <<<<PACKRAT_ACTION_SNAPSHOT, HASH_TYPE_LIBRARY>>>>
    /\ last.emitted = 1
    /\ OBSERVED(HASH_TYPE_LIBRARY) # computeLibraryHash

\* C13 as stated: in every reachable state in which no lockfile is present,
\* the computed lockfile hash is the empty string and isUnresolved(LOCKFILE)
\* is false.
C13_AbsentLockfileResolved ==
    ~lockfile.exists
        => (computeLockfileHash = "" /\ ~isUnresolved(HASH_TYPE_LOCKFILE))

\* C13, amended: in every reachable state in which no lockfile is present,
\* the computed lockfile hash is the empty string, and isUnresolved(LOCKFILE)
\* is false if OBSERVED(LOCKFILE) or RESOLVED(LOCKFILE) is empty, which is so
\* with no prior state and after every annotate made without a lockfile.
C13_AbsentLockfile ==
    ~lockfile.exists
        => ( /\ computeLockfileHash = ""
             /\ (OBSERVED(HASH_TYPE_LOCKFILE) = ""
                    \/ RESOLVED(HASH_TYPE_LOCKFILE) = "")
                 => ~isUnresolved(HASH_TYPE_LOCKFILE)
             /\ last.op = "annotate"
                 => ( /\ OBSERVED(HASH_TYPE_LOCKFILE) = ""
                      /\ ~isUnresolved(HASH_TYPE_LOCKFILE) ) )

\* the lockfile was resolved and then deleted, and annotate has run since
C13_Witness ==
    /\ ~lockfile.exists
    /\ last.op = "annotate"
    /\ RESOLVED(HASH_TYPE_LOCKFILE) # ""
    /\ ~isUnresolved(HASH_TYPE_LOCKFILE)

----------------------------------------------------------------------------
(* Properties of the scheduler's transitions                               *)

\* C14: each request(h) made while a subprocess runs toward another hash
\* increments the pending counter by exactly one, starts no subprocess and
\* leaves the running subprocess and its target as they are.
C14_DifferingRequestQueued ==
    [][ ( /\ last'.op = "onFilesChanged"
          /\ Running
          /\ last'.requests # <<>>
          /\ \A i \in DOMAIN last'.requests :
                last'.requests[i] # pAutoSnapshot.targetHash )
        => ( /\ pendingSnapshots' = pendingSnapshots + Len(last'.requests)
             /\ last'.started = 0
             /\ pAutoSnapshot' = pAutoSnapshot
             /\ ActiveSnapshots' = 1 ) ]_vars

\* a differing request was queued behind one already pending
C14_Witness ==
    /\ last.op = "onFilesChanged"
    /\ Len(last.requests) = 1
    /\ last.requests[1] # pAutoSnapshot.targetHash
    /\ last.started = 0
    /\ Running
    /\ pendingSnapshots = 2

\* C15: whenever a run during which no differing request was made exits
\* with status 0, the scheduler goes to IDLE, resolveAfter(SNAPSHOT, LIBRARY)
\* is triggered and no subprocess is started, however earlier runs ended.
C15_CleanExitResolves ==
    [][ (last'.op = "exit0" /\ queued = 0)
        => ( /\ ~isRunning(pAutoSnapshot')
             /\ last'.started = 0
             /\ last'.resolves
                  = <<<<PACKRAT_ACTION_SNAPSHOT, HASH_TYPE_LIBRARY>>>> )
      ]_vars

\* C16: an exit with a non-zero status leaves no subprocess active, triggers
\* no resolveAfter and no query, emits no UI refresh, starts no subprocess
\* for the queued requests and changes none of the four persisted hashes.
C16_FailedExit ==
    [][ last'.op = "exitFail"
        => ( /\ ~isRunning(pAutoSnapshot')
             /\ ActiveSnapshots' = 0
             /\ last'.resolves = <<>>
             /\ last'.queries = <<>>
             /\ last'.emitted = 0
             /\ last'.started = 0
             /\ last'.requests = <<>>
             /\ store' = store ) ]_vars

\* a run with requests queued behind it failed: nothing runs, the library
\* is neither resolved nor the client's view
C16_Witness ==
    /\ last.op = "exitFail"
    /\ pendingSnapshots > 0
    /\ pAutoSnapshot.state = "exited"
    /\ RESOLVED(HASH_TYPE_LIBRARY) # computeLibraryHash
    /\ OBSERVED(HASH_TYPE_LIBRARY) # computeLibraryHash

\* C17: in every reachable state in which no auto-snapshot subprocess is
\* active, the pending counter is 0.
C17_CounterZeroWhenIdle == ActiveSnapshots = 0 => pendingSnapshots = 0

----------------------------------------------------------------------------
(* Properties of the reactions to file changes                             *)

\* the checks of the library among the checks a handler made
LibraryChecks(obs) ==
    {i \in DOMAIN obs.checks : obs.checks[i] = HASH_TYPE_LIBRARY}

\* C18: a batch of file changes makes scheduler requests (subprocess starts,
\* counter increments) only through checks of the library, made while no
\* RunningAction is recorded, OBSERVED(LIBRARY) # COMPUTED(LIBRARY) and the
\* lockfile is not unresolved, and each request is for the computed library
\* hash; checks of the lockfile emit at most one UI refresh each and request
\* nothing; checks that find OBSERVED = COMPUTED do nothing at all.
C18_RequestsOnlyFromLibraryDrift ==
    [][ last'.op = "onFilesChanged"
        => LET increments == pendingSnapshots' - pendingSnapshots
           IN  /\ last'.started + increments <= Len(last'.requests)
               /\ last'.started >= 0 /\ increments >= 0
               /\ last'.requests # <<>>
                   => ( /\ Len(last'.requests)
                              = Cardinality(LibraryChecks(last'))
                        /\ s_runningPackratAction = PACKRAT_ACTION_NONE
                        /\ OBSERVED(HASH_TYPE_LIBRARY) # computeLibraryHash
                        /\ ~isUnresolved(HASH_TYPE_LOCKFILE)
                        /\ \A i \in DOMAIN last'.requests :
                              last'.requests[i] = computeLibraryHash )
               /\ LibraryChecks(last') = {}
                   => ( /\ last'.requests = <<>>
                        /\ last'.emitted <= Len(last'.checks)
                        /\ UNCHANGED <<store, pendingSnapshots, pAutoSnapshot,
                                       orphans, s_runningPackratAction>> )
               /\ (\A i \in DOMAIN last'.checks :
                      OBSERVED(last'.checks[i]) = computed(last'.checks[i]))
                   => ( /\ last'.requests = <<>>
                        /\ last'.emitted = 0
                        /\ UNCHANGED <<store, pendingSnapshots, pAutoSnapshot,
                                       orphans, s_runningPackratAction>> )
      ]_vars

\* one batch reported the lockfile and the library, both drifted: the
\* lockfile check refreshed the UI, the library check started a run
C18_Witness ==
    /\ last.op = "onFilesChanged"
    /\ last.checks = <<HASH_TYPE_LOCKFILE, HASH_TYPE_LIBRARY>>
    /\ last.emitted = 1
    /\ last.requests = <<computeLibraryHash>>
    /\ last.started = 1
    /\ OBSERVED(HASH_TYPE_LOCKFILE) # computeLockfileHash

----------------------------------------------------------------------------
(* Properties of the pending-actions queries                               *)

\* the entry of the result that annotatePendingActions fills for an action
ActionField(action) ==
    CASE action = PACKRAT_ACTION_SNAPSHOT -> "snapshot_actions"
      [] action = PACKRAT_ACTION_RESTORE -> "restore_actions"
      [] action = PACKRAT_ACTION_CLEAN -> "clean_actions"

\* C19: a pendingActions query that fails is treated as one that returns an
\* empty list: annotate attaches for it what it attaches for an empty list
\* (the value left as constructed), and resolveAfter sets
\* RESOLVED = COMPUTED for the lockfile and for the library.
C19_FailedQueryAsEmpty ==
    [][ /\ last'.op = "annotate"
            => \A i \in DOMAIN last'.queries :
                 LET q == last'.queries[i]
                 IN  (q[2] \in {"error", "none"})
                        <=> (last'.json[ActionField(q[1])] = JsonNull)
        /\ ( /\ last'.resolves # <<>>
              /\ last'.queries # <<>>
              /\ last'.queries[Len(last'.queries)][2] = "error" )
            => BothResolved' ]_vars

\* the query made at the end of a restore failed, and both entities were
\* marked resolved
C19_Witness ==
    /\ last.op = "actionStop"
    /\ last.queries = <<<<PACKRAT_ACTION_RESTORE, "error">>>>
    /\ computeLockfileHash # ""
    /\ BothResolved

----------------------------------------------------------------------------
(* Properties of the action lifecycle                                      *)

\* the resolveAfter calls that the end of a recorded action makes
ResolutionsOf(recorded) ==
    CASE recorded = PACKRAT_ACTION_SNAPSHOT ->
           <<<<PACKRAT_ACTION_SNAPSHOT, HASH_TYPE_LIBRARY>>>>
      [] recorded = PACKRAT_ACTION_RESTORE ->
           <<<<PACKRAT_ACTION_RESTORE, HASH_TYPE_LOCKFILE>>>>
      [] OTHER -> <<>>

\* C20: a running == false event for the current project clears the recorded
\* RunningAction before any resolution runs, and calls resolveAfter once
\* with (SNAPSHOT, LIBRARY) if SNAPSHOT was recorded, once with
\* (RESTORE, LOCKFILE) if RESTORE was, and not at all if CLEAN was; the end
\* of a CLEAN changes no persisted hash and emits no UI refresh.
C20_StopResolvesRecorded ==
    [][ last'.op = "actionStop"
        => ( /\ s_runningPackratAction' = PACKRAT_ACTION_NONE
             /\ last'.completed = s_runningPackratAction
             /\ last'.resolves = ResolutionsOf(s_runningPackratAction)
             /\ \A i \in DOMAIN last'.resolvedWhile :
                   last'.resolvedWhile[i] = PACKRAT_ACTION_NONE
             /\ s_runningPackratAction = PACKRAT_ACTION_CLEAN
                 => ( /\ store' = store
                      /\ last'.emitted = 0
                      /\ last'.queries = <<>>
                      /\ last'.started = 0 ) ) ]_vars

\* a clean ended while the client's view of the lockfile was out of date
\* and the library was not resolved: nothing was emitted or resolved
C20_Witness ==
    /\ last.op = "actionStop"
    /\ last.completed = PACKRAT_ACTION_CLEAN
    /\ last.resolves = <<>>
    /\ last.emitted = 0
    /\ s_runningPackratAction = PACKRAT_ACTION_NONE
    /\ OBSERVED(HASH_TYPE_LOCKFILE) # computeLockfileHash
    /\ RESOLVED(HASH_TYPE_LIBRARY) # computeLibraryHash

\* the handler made no call and changed nothing but, possibly, the slot
NothingButSlot(obs) ==
    /\ obs.resolves = <<>>
    /\ obs.queries = <<>>
    /\ obs.emitted = 0
    /\ obs.started = 0
    /\ obs.requests = <<>>
    /\ UNCHANGED <<store, pendingSnapshots, pAutoSnapshot, orphans>>

\* C21: a running == true event for the current project leaves the slot
\* equal to the action named in the event, whatever was recorded, and
\* resolves nothing; an event of another project changes nothing.
C21_SingleSlot ==
    [][ /\ last'.op = "actionStart"
            => ( /\ last'.event.running
                 /\ last'.event.project = CurrentProject
                 /\ last'.event.recorded = s_runningPackratAction
                 /\ s_runningPackratAction' = packratAction(last'.event.action)
                 /\ s_runningPackratAction' # PACKRAT_ACTION_NONE
                 /\ last'.event.action \in ActionNames
                     => packratActionName(s_runningPackratAction')
                            = last'.event.action
                 /\ NothingButSlot(last') )
        /\ last'.op = "actionElsewhere"
            => ( /\ last'.event.project # CurrentProject
                 /\ NothingButSlot(last')
                 /\ s_runningPackratAction' = s_runningPackratAction ) ]_vars

\* a restore started while a snapshot was recorded and unresolved: the slot
\* holds the restore, the library was not resolved
C21_Witness ==
    /\ last.op = "actionStart"
    /\ last.event.action = kPackratActionRestore
    /\ last.event.recorded = PACKRAT_ACTION_SNAPSHOT
    /\ s_runningPackratAction = PACKRAT_ACTION_RESTORE
    /\ RESOLVED(HASH_TYPE_LIBRARY) # computeLibraryHash

----------------------------------------------------------------------------
(* Properties of annotate and of the re-entrancy guard                     *)

\* the actions whose pending lists a handler queried
Queried(obs) == {obs.queries[i][1] : i \in DOMAIN obs.queries}

\* C22: after annotate, OBSERVED = COMPUTED for the lockfile and for the
\* library; pending snapshot actions are queried iff the new
\* OBSERVED(LIBRARY) # RESOLVED(LIBRARY), pending restore actions iff the new
\* OBSERVED(LOCKFILE) # RESOLVED(LOCKFILE), pending clean actions always;
\* RESOLVED, the RunningAction and the scheduler are left as they were.
C22_Annotate ==
    [][ last'.op = "annotate"
        => ( /\ OBSERVED(HASH_TYPE_LOCKFILE)' = computeLockfileHash
             /\ OBSERVED(HASH_TYPE_LIBRARY)' = computeLibraryHash
             /\ PACKRAT_ACTION_SNAPSHOT \in Queried(last')
                   <=> OBSERVED(HASH_TYPE_LIBRARY)'
                          # RESOLVED(HASH_TYPE_LIBRARY)'
             /\ PACKRAT_ACTION_RESTORE \in Queried(last')
                   <=> OBSERVED(HASH_TYPE_LOCKFILE)'
                          # RESOLVED(HASH_TYPE_LOCKFILE)'
             /\ PACKRAT_ACTION_CLEAN \in Queried(last')
             /\ Cardinality(Queried(last')) = Len(last'.queries)
             /\ ~ResolvedChanges
             /\ last'.resolves = <<>>
             /\ last'.emitted = 0
             /\ last'.started = 0
             /\ UNCHANGED <<s_runningPackratAction, pendingSnapshots,
                            pAutoSnapshot, orphans>> ) ]_vars

\* annotate found the library dirty and the lockfile clean while a restore
\* was recorded and a snapshot subprocess was running
C22_Witness ==
    /\ last.op = "annotate"
    /\ Queried(last) = {PACKRAT_ACTION_SNAPSHOT, PACKRAT_ACTION_CLEAN}
    /\ OBSERVED(HASH_TYPE_LOCKFILE) = computeLockfileHash
    /\ computeLockfileHash # ""
    /\ OBSERVED(HASH_TYPE_LIBRARY) = computeLibraryHash
    /\ s_runningPackratAction = PACKRAT_ACTION_RESTORE
    /\ Running

\* C24: only annotate writes the persisted OBSERVED values: no other
\* handler changes OBSERVED(LOCKFILE) or OBSERVED(LIBRARY), so an entity
\* whose OBSERVED hash differs from the computed one still differs after
\* any handler but annotate.
C24_OnlyAnnotateWritesObserved ==
    [][ /\ ObservedChanges => last'.op = "annotate"
        /\ last'.op \notin {"annotate", "idle"}
            => \A t \in HashTypes :
                 OBSERVED(t) # computed(t) => OBSERVED(t)' # computed(t)'
      ]_vars

\* a snapshot was resolved with nothing pending: the library is resolved,
\* and the client's view of it is still the old one
C24_Witness ==
    /\ last.resolves = <<<<PACKRAT_ACTION_SNAPSHOT, HASH_TYPE_LIBRARY>>>>
    /\ NothingPending(last)
    /\ last.emitted = 1
    /\ RESOLVED(HASH_TYPE_LIBRARY) = computeLibraryHash
    /\ OBSERVED(HASH_TYPE_LIBRARY) # computeLibraryHash
    /\ OBSERVED(HASH_TYPE_LIBRARY) # ""

----------------------------------------------------------------------------
(* Properties of the end of an action                                      *)

\* only the start and the end of an action change the slot, so that after
\* start(A), start(B) the slot holds B until the next stop event, and holds
\* nothing from then until the next start event
SlotFrame ==
    last'.op \notin {"actionStart", "actionStop"}
        => s_runningPackratAction' = s_runningPackratAction

\* a stop event clears the slot and resolves nothing but what was recorded
\* when it arrived; with nothing recorded it changes no state
StopOfRecorded ==
    last'.op = "actionStop"
        => ( /\ ~last'.event.running
             /\ last'.event.recorded = s_runningPackratAction
             /\ last'.completed = s_runningPackratAction
             /\ s_runningPackratAction' = PACKRAT_ACTION_NONE
             /\ \A i \in DOMAIN last'.resolves :
                   last'.resolves[i][1] = s_runningPackratAction
             /\ s_runningPackratAction = PACKRAT_ACTION_NONE
                 => (last'.resolves = <<>> /\ NothingButSlot(last')) )

\* the resolveAfter calls made by the two stops that follow start(A),
\* start(B), at the second of them
BothStops == sequence[3] \o last'.resolves

\* C25 as stated: a running == false event resolves the action recorded in
\* the slot, not the action it names; with nothing recorded it resolves
\* nothing and changes no state; after start(A), start(B), stop, stop
\* exactly one resolution has happened, for B.
C25_OneResolutionForRecorded ==
    [][ /\ SlotFrame
        /\ StopOfRecorded
        /\ (last'.op = "actionStop" /\ Len(sequence) = 3)
            => ( /\ Len(BothStops) = 1
                 /\ BothStops[1][1] = sequence[2] ) ]_vars

\* C25, amended: the same, but after start(A), start(B), stop, stop one
\* resolution has happened, for B, if B is a snapshot or a restore, and
\* none if B is a clean or an action of another name; it is the first stop
\* that makes it, and A is not resolved.
C25_ResolvesRecorded ==
    [][ /\ SlotFrame
        /\ StopOfRecorded
        /\ last'.op = "actionStop"
            => last'.resolves = ResolutionsOf(s_runningPackratAction)
        /\ Len(sequence) = 2 => s_runningPackratAction = sequence[2]
        /\ (last'.op = "actionStop" /\ Len(sequence) = 3)
            => ( /\ BothStops = ResolutionsOf(sequence[2])
                 /\ last'.resolves = <<>>
                 /\ sequence[3] = ResolutionsOf(sequence[2]) ) ]_vars

\* a snapshot was started, a restore was started over it, and a stop event
\* that names the snapshot arrived: the restore was resolved
C25_Witness ==
    /\ last.op = "actionStop"
    /\ last.event.action = kPackratActionSnapshot
    /\ sequence = << PACKRAT_ACTION_SNAPSHOT, PACKRAT_ACTION_RESTORE,
                     <<<<PACKRAT_ACTION_RESTORE, HASH_TYPE_LOCKFILE>>>> >>
    /\ s_runningPackratAction = PACKRAT_ACTION_NONE

\* the hash types onFilesChanged checks for a batch when no action runs:
\* one for each change to the lockfile or to a package's DESCRIPTION file
CheckedFor(changes) ==
    [ i \in 1..Len(SelectSeq(changes, LAMBDA p : p \in WatchedPaths)) |->
        IF SelectSeq(changes, LAMBDA p : p \in WatchedPaths)[i].filename
               = kPackratLockfile
        THEN HASH_TYPE_LOCKFILE ELSE HASH_TYPE_LIBRARY ]

\* what a handler leaves behind: the program state and the notifications,
\* subprocess starts, snapshot requests and hash checks it made
Effects(c) ==
    << c.store, c.pendingSnapshots, c.pAutoSnapshot, c.orphans, c.emitted,
       c.started, c.requests, c.checks >>

\* what onFilesChanged does with the batch when nothing is reported while
\* its hash checks execute
Undisturbed(changes) == onFilesChanged(Ctx(Uniform("none")), changes)

\* C23: a checkHashes call that arrives while another checkHashes call, for
\* either entity, is executing is dropped without any effect: the handler
\* leaves the state and the notifications it would have left without the
\* nested call.  The guard is cleared on every exit path of the outer call,
\* so every later call that is not nested is executed: none is dropped.
C23_NestedCallDropped ==
    [][ /\ recursionCount' = 0
        /\ last'.op = "onFilesChanged"
            => ( /\ last'.checks = CheckedFor(last'.changes)
                 /\ last'.dropped
                       = IF last'.checks = <<>> THEN 0 ELSE Len(last'.echo)
                 /\ << store', pendingSnapshots', pAutoSnapshot', orphans',
                       last'.emitted, last'.started, last'.requests,
                       last'.checks >>
                       = Effects(Undisturbed(last'.changes)) )
      ]_vars

\* a change to the lockfile was reported while the library was being
\* checked, in a batch whose first check found equal hashes and whose
\* second check, of the lockfile, found a mismatch and reacted
C23_Witness ==
    /\ last.op = "onFilesChanged"
    /\ last.checks = <<HASH_TYPE_LIBRARY, HASH_TYPE_LOCKFILE>>
    /\ Len(last.echo) = 1
    /\ last.echo[1].filename = kPackratLockfile
    /\ last.dropped = 1
    /\ last.started = 0
    /\ last.emitted = 1
    /\ recursionCount = 0

====
